---- MODULE Spec2Model ----
(***************************************************************************)
(* The AO MCP server: the "call tool" request handler, the dispatcher and  *)
(* the executors behind it, as a state machine.  One handler per call      *)
(* slot; a handler runs synchronously up to its next await of the network  *)
(* client and is resumed by the client's reply (a value or a raise).       *)
(*                                                                         *)
(* JavaScript values are modelled as follows.  A string is a TLA+ string.  *)
(* An optional value (a property that may be undefined) is a sequence of   *)
(* length at most one: << >> is undefined, <<v>> is the value v.           *)
(***************************************************************************)
EXTENDS Integers, Sequences, FiniteSets, TLC

(***************************************************************************)
(* Bounds of the model.                                                    *)
(***************************************************************************)
MaxCalls == 1

(***************************************************************************)
(* Optional values and the JavaScript coercions the executors rely on.     *)
(***************************************************************************)
Undef == << >>
Some(v) == <<v>>
IsDef(o) == o /= << >>

\* Truthiness of an optional string: undefined and "" are falsy.
Truthy(o) == IsDef(o) /\ o[1] /= ""

\* Truthiness of an optional array or object: every array/object is truthy.
TruthyObj(o) == IsDef(o)

\* String(o) as a template literal renders it.
Str(o) == IF IsDef(o) THEN o[1] ELSE "undefined"

\* o || d for an optional string o and a default string d.
OrElse(o, d) == IF Truthy(o) THEN o[1] ELSE d

\* The character at position i of s, as a one-character string.
CharAt(s, i) == SubSeq(s, i, i)

\* s.includes(t)
Contains(s, t) ==
    \E i \in 1..(Len(s) - Len(t) + 1) : SubSeq(s, i, i + Len(t) - 1) = t

\* s.startsWith(t)
StartsWith(s, t) == Len(s) >= Len(t) /\ SubSeq(s, 1, Len(t)) = t

\* s.endsWith(t)
EndsWith(s, t) == Len(s) >= Len(t) /\ SubSeq(s, Len(s) - Len(t) + 1, Len(s)) = t

IsSpace(ch) == ch \in {" ", "\n", "\t", "\r"}

RECURSIVE TrimLeft(_)
TrimLeft(s) ==
    IF Len(s) > 0 /\ IsSpace(CharAt(s, 1)) THEN TrimLeft(Tail(s)) ELSE s

RECURSIVE TrimRight(_)
TrimRight(s) ==
    IF Len(s) > 0 /\ IsSpace(CharAt(s, Len(s)))
    THEN TrimRight(SubSeq(s, 1, Len(s) - 1))
    ELSE s

\* s.trim()
Trim(s) == TrimRight(TrimLeft(s))

(***************************************************************************)
(* JSON.parse and JSON.stringify(value, null, 2), for the JSON texts the   *)
(* model feeds them: the literals, integers, strings without escape        *)
(* sequences, arrays and objects, with JSON whitespace between tokens.     *)
(* A parsed value is [t |-> kind, v |-> payload]; an object keeps its      *)
(* members in insertion order, a repeated key keeping its first position   *)
(* and its last value.                                                     *)
(***************************************************************************)
Digits == {"0", "1", "2", "3", "4", "5", "6", "7", "8", "9"}

ParseOk(v, rest) == [ok |-> TRUE, val |-> v, rest |-> rest]
ParseFail == [ok |-> FALSE, val |-> << >>, rest |-> ""]

RECURSIVE DigitRun(_)
DigitRun(s) ==
    IF Len(s) > 0 /\ CharAt(s, 1) \in Digits THEN 1 + DigitRun(Tail(s)) ELSE 0

ParseNumber(s) ==
    LET neg  == StartsWith(s, "-")
        body == IF neg THEN Tail(s) ELSE s
        n    == DigitRun(body)
        txt  == SubSeq(body, 1, n)
        rest == SubSeq(body, n + 1, Len(body))
    IN  IF n = 0 \/ (n > 1 /\ CharAt(body, 1) = "0")
           \/ (Len(rest) > 0 /\ CharAt(rest, 1) \in {".", "e", "E"})
        THEN ParseFail
        ELSE ParseOk([t |-> "num",
                      v |-> IF neg /\ txt /= "0" THEN "-" \o txt ELSE txt], rest)

\* Number of characters before the closing quote, or -1 when there is none.
RECURSIVE StrRun(_)
StrRun(s) ==
    IF Len(s) = 0 THEN -1
    ELSE LET c == CharAt(s, 1)
         IN  IF c = "\"" THEN 0
             ELSE IF c \in {"\\", "\n", "\t", "\r"} THEN -1
             ELSE LET r == StrRun(Tail(s)) IN IF r < 0 THEN -1 ELSE r + 1

\* s starts with the opening quote.
ParseString(s) ==
    LET n == StrRun(Tail(s))
    IN  IF n < 0 THEN ParseFail
        ELSE ParseOk([t |-> "str", v |-> SubSeq(s, 2, n + 1)],
                     SubSeq(s, n + 3, Len(s)))

RECURSIVE PutMember(_, _, _)
PutMember(ms, k, v) ==
    IF ms = << >> THEN <<[k |-> k, v |-> v]>>
    ELSE IF Head(ms).k = k THEN <<[k |-> k, v |-> v]>> \o Tail(ms)
    ELSE <<Head(ms)>> \o PutMember(Tail(ms), k, v)

RECURSIVE ParseValue(_), ParseElems(_, _), ParseMembers(_, _)
ParseValue(s) ==
    LET s0 == TrimLeft(s)
        c  == IF Len(s0) > 0 THEN CharAt(s0, 1) ELSE ""
    IN  CASE StartsWith(s0, "true")  ->
               ParseOk([t |-> "lit", v |-> "true"], SubSeq(s0, 5, Len(s0)))
          [] StartsWith(s0, "false") ->
               ParseOk([t |-> "lit", v |-> "false"], SubSeq(s0, 6, Len(s0)))
          [] StartsWith(s0, "null")  ->
               ParseOk([t |-> "lit", v |-> "null"], SubSeq(s0, 5, Len(s0)))
          [] c = "\"" -> ParseString(s0)
          [] c = "-" \/ c \in Digits -> ParseNumber(s0)
          [] c = "[" ->
               LET s1 == TrimLeft(Tail(s0))
               IN  IF StartsWith(s1, "]")
                   THEN ParseOk([t |-> "arr", v |-> << >>], Tail(s1))
                   ELSE ParseElems(s1, << >>)
          [] c = "{" ->
               LET s1 == TrimLeft(Tail(s0))
               IN  IF StartsWith(s1, "}")
                   THEN ParseOk([t |-> "obj", v |-> << >>], Tail(s1))
                   ELSE ParseMembers(s1, << >>)
          [] OTHER -> ParseFail

ParseElems(s, acc) ==
    LET r == ParseValue(s)
    IN  IF ~r.ok THEN ParseFail
        ELSE LET s1 == TrimLeft(r.rest)
                 a1 == Append(acc, r.val)
             IN  IF StartsWith(s1, ",") THEN ParseElems(Tail(s1), a1)
                 ELSE IF StartsWith(s1, "]")
                      THEN ParseOk([t |-> "arr", v |-> a1], Tail(s1))
                      ELSE ParseFail

ParseMembers(s, acc) ==
    LET s0 == TrimLeft(s)
    IN  IF ~StartsWith(s0, "\"") THEN ParseFail
        ELSE LET k == ParseString(s0)
             IN  IF ~k.ok THEN ParseFail
                 ELSE LET s1 == TrimLeft(k.rest)
                      IN  IF ~StartsWith(s1, ":") THEN ParseFail
                          ELSE LET r == ParseValue(Tail(s1))
                               IN  IF ~r.ok THEN ParseFail
                                   ELSE LET s2 == TrimLeft(r.rest)
                                            a1 == PutMember(acc, k.val.v, r.val)
                                        IN  IF StartsWith(s2, ",")
                                            THEN ParseMembers(Tail(s2), a1)
                                            ELSE IF StartsWith(s2, "}")
                                                 THEN ParseOk([t |-> "obj", v |-> a1],
                                                              Tail(s2))
                                                 ELSE ParseFail

\* JSON.parse(o): [ok |-> TRUE, val |-> value], or [ok |-> FALSE] when it
\* raises a SyntaxError.  An undefined argument is parsed as "undefined".
JSONParse(o) ==
    LET r == ParseValue(Str(o))
    IN  IF r.ok /\ TrimLeft(r.rest) = ""
        THEN [ok |-> TRUE, val |-> r.val]
        ELSE [ok |-> FALSE]

RECURSIVE Spaces(_)
Spaces(n) == IF n = 0 THEN "" ELSE " " \o Spaces(n - 1)

\* JSON.stringify(v, null, 2), the value being at indentation ind.
RECURSIVE Stringify(_, _), JoinElems(_, _), JoinMembers(_, _)
Stringify(v, ind) ==
    CASE v.t \in {"lit", "num"} -> v.v
      [] v.t = "str" -> "\"" \o v.v \o "\""
      [] v.t = "arr" ->
           IF v.v = << >> THEN "[]"
           ELSE "[\n" \o JoinElems(v.v, ind + 2) \o "\n" \o Spaces(ind) \o "]"
      [] v.t = "obj" ->
           IF v.v = << >> THEN "{}"
           ELSE "{\n" \o JoinMembers(v.v, ind + 2) \o "\n" \o Spaces(ind) \o "}"

JoinElems(vs, ind) ==
    Spaces(ind) \o Stringify(Head(vs), ind)
      \o (IF Len(vs) > 1 THEN ",\n" \o JoinElems(Tail(vs), ind) ELSE "")

JoinMembers(ms, ind) ==
    Spaces(ind) \o "\"" \o Head(ms).k \o "\": " \o Stringify(Head(ms).v, ind)
      \o (IF Len(ms) > 1 THEN ",\n" \o JoinMembers(Tail(ms), ind) ELSE "")

(***************************************************************************)
(* Values exchanged with the transport and with the network client.        *)
(***************************************************************************)
\* ToolResult: { content: [{ type: "text", text }], isError? }
Envelope(text) == [content |-> <<[type |-> "text", text |-> text]>>]
ErrorEnvelope(text) ==
    [content |-> <<[type |-> "text", text |-> text]>>, isError |-> TRUE]

IsErr(env) == "isError" \in DOMAIN env /\ env.isError
TextOf(env) == env.content[1].text

\* A tag { name, value }; the value is optional because send-message passes
\* args.action through unchecked.
Tag(n, v) == [name |-> n, value |-> v]

\* tags?.find(t => t.name === "Action"): the first tag named Action, if any.
RECURSIVE FindAction(_)
FindAction(ts) ==
    IF ts = << >> THEN Undef
    ELSE IF Head(ts).name = "Action" THEN Some(Head(ts))
    ELSE FindAction(Tail(ts))

\* actionTag?.value for msg.Tags?.find(...)
ActionValue(msg) ==
    LET tag == IF IsDef(msg.Tags) THEN FindAction(msg.Tags[1]) ELSE Undef
    IN  IF IsDef(tag) THEN tag[1].value ELSE Undef

\* What an awaited or called external function does: return a value or raise.
Returned(v) == [k |-> "ok", val |-> v]
Raised(e) == [k |-> "throw", err |-> e]

\* error instanceof Error ? error.message : "Unknown error"
ErrorText(e) == IF e.isErrorObj THEN e.message ELSE "Unknown error"

\* What an executor has done when it gives control back: returned an
\* envelope, or suspended at an await of the network client.
\* ext lists the external functions it called synchronously on the way.
Return(env) == [k |-> "return", env |-> env, ext |-> << >>]
Await(op, req) == [k |-> "await", op |-> op, req |-> req, ext |-> << >>]

\* The step of an executor that first called createDataItemSigner(jwk).
Derived(jwk, step) ==
    [step EXCEPT !.ext = <<[op |-> "createDataItemSigner", jwk |-> jwk]>>]

\* The signer createDataItemSigner(jwk) returns.
SignerOf(jwk) == [signerFor |-> jwk]

(***************************************************************************)
(* Configuration constants.                                                *)
(***************************************************************************)
AOS_MODULE == "Do_Uc2Sju_ffp6Ev0AnLVdPtot15rvMjP-a9VVaA5fM"
SCHEDULER == "_GQ33BkPtZrqxA84vM8Zk-N2aO0toNNu_C-l-rawrBA"
PidLength == 43
DefaultLimit == 10
PreviewLength == 200

\* !args.wallet_json
WalletMissing(a) == ~Truthy(a.wallet_json)

\* JSON.parse(args.wallet_json) raises
WalletUnparseable(a) == ~JSONParse(a.wallet_json).ok

InvalidPidText(a) ==
    "Error: Invalid process ID \"" \o Str(a.process_id)
      \o "\". Must be a 43-character Arweave transaction ID."

\* InvalidPid without the length test.
InvalidPidNoLength(a) == ~Truthy(a.process_id)

\* !args.process_id || args.process_id.length !== 43
InvalidPid(a) == ~Truthy(a.process_id) \/ Len(a.process_id[1]) /= PidLength

\* The parse-failure message naming the key format only.
InvalidJwkText == "Error: Invalid JSON. Ensure it is a valid Arweave JWK."

InvalidWalletJsonText == "Error: Invalid wallet JSON. Ensure it is a valid Arweave JWK."

\* BuildTags appending the Action tag after the caller's tags.
BuildTagsActionLast(first, tags) ==
    (IF TruthyObj(tags) THEN tags[1] ELSE << >>) \o <<first>>

\* The tags an executor builds: the Action tag, then the caller's tags.
BuildTags(first, tags) ==
    <<first>> \o (IF TruthyObj(tags) THEN tags[1] ELSE << >>)

(***************************************************************************)
(* ao_query_process                                                        *)
(***************************************************************************)
\* executeQueryProcess up to its await of dryrun.
executeQueryProcess(a) ==
    IF InvalidPid(a) THEN Return(ErrorEnvelope(InvalidPidText(a)))
    ELSE Await("dryrun",
               [process |-> a.process_id[1],
                tags    |-> BuildTags(Tag("Action", Some(OrElse(a.action, "Info"))),
                                      a.tags),
                data    |-> OrElse(a.data, "{}")])

HasMessages(r) == IsDef(r.Messages) /\ Len(r.Messages[1]) > 0
OutputData(r) == IF IsDef(r.Output) THEN r.Output[1].data ELSE Undef

\* QueryBranch testing the error field before the direct output.
QueryBranchErrorFirst(r) ==
    IF HasMessages(r)
    THEN IF ActionValue(r.Messages[1][1]) = Some("Error") THEN "messageError"
         ELSE IF JSONParse(r.Messages[1][1].Data).ok THEN "messageJson"
         ELSE "messageRaw"
    ELSE IF Truthy(r.Error) THEN "error"
    ELSE IF Truthy(OutputData(r)) THEN "output"
    ELSE "none"

\* The branch of the response interpretation executeQueryProcess takes.
QueryBranch(r) ==
    IF HasMessages(r)
    THEN IF ActionValue(r.Messages[1][1]) = Some("Error") THEN "messageError"
         ELSE IF JSONParse(r.Messages[1][1].Data).ok THEN "messageJson"
         ELSE "messageRaw"
    ELSE IF Truthy(OutputData(r)) THEN "output"
    ELSE IF Truthy(r.Error) THEN "error"
    ELSE "none"

QueryInterpret(r) ==
    LET b    == QueryBranch(r)
        msg  == r.Messages[1][1]
        head == "Process response (Action: "
                  \o OrElse(ActionValue(msg), "unknown") \o "):\n"
    IN  CASE b = "messageError" ->
               ErrorEnvelope("Process returned error: " \o Str(msg.Data))
          [] b = "messageJson" ->
               Envelope(head \o Stringify(JSONParse(msg.Data).val, 0))
          [] b = "messageRaw" -> Envelope(head \o Str(msg.Data))
          [] b = "output" -> Envelope("Process output:\n" \o OutputData(r)[1])
          [] b = "error" -> ErrorEnvelope("Process error: " \o r.Error[1])
          [] OTHER ->
               Envelope("No response from process. The process may not have a handler for this action.")

\* executeQueryProcess from the reply of dryrun to its return.
executeQueryProcessResume(reply) ==
    IF reply.k = "throw"
    THEN ErrorEnvelope("Error querying process: " \o ErrorText(reply.err))
    ELSE QueryInterpret(reply.val)

(***************************************************************************)
(* ao_send_message                                                         *)
(***************************************************************************)
\* executeSendMessage up to its await of message; sg is what
\* createDataItemSigner does when it is reached.
executeSendMessage(a, sg) ==
    IF InvalidPid(a) THEN Return(ErrorEnvelope(InvalidPidText(a)))
    ELSE IF WalletMissing(a)
    THEN Return(ErrorEnvelope("Error: wallet_json is required for sending messages. Provide the JSON content of your Arweave wallet."))
    ELSE IF WalletUnparseable(a)
    THEN Return(ErrorEnvelope(InvalidWalletJsonText))
    ELSE LET jwk == JSONParse(a.wallet_json).val
         IN  IF sg.k = "throw"
             THEN Derived(jwk, Return(ErrorEnvelope("Error sending message: "
                                                      \o ErrorText(sg.err))))
             ELSE Derived(jwk,
                    Await("message",
                          [process |-> a.process_id[1],
                           signer  |-> SignerOf(jwk),
                           tags    |-> BuildTags(Tag("Action", a.action), a.tags),
                           data    |-> OrElse(a.data, "{}")]))

\* A variant that fetches the outcome under the process identifier instead
\* of the identifier message() returned.
executeSendMessageSentWrongId(a, reply) ==
    IF reply.k = "throw"
    THEN Return(ErrorEnvelope("Error sending message: " \o ErrorText(reply.err)))
    ELSE Await("result", [process |-> a.process_id[1],
                          message |-> a.process_id[1]])

\* executeSendMessage from the reply of message to its await of result.
executeSendMessageSent(a, reply) ==
    IF reply.k = "throw"
    THEN Return(ErrorEnvelope("Error sending message: " \o ErrorText(reply.err)))
    ELSE Await("result", [process |-> a.process_id[1], message |-> reply.val])

\* SendBranch without the test for an Error-tagged first message.
SendBranchNoErrorTag(r) ==
    IF HasMessages(r)
    THEN IF JSONParse(r.Messages[1][1].Data).ok THEN "messageJson"
         ELSE "messageRaw"
    ELSE IF Truthy(r.Error) THEN "error"
    ELSE IF Truthy(OutputData(r)) THEN "output"
    ELSE "none"

\* The branch of the outcome interpretation executeSendMessage takes.
SendBranch(r) ==
    IF HasMessages(r)
    THEN IF ActionValue(r.Messages[1][1]) = Some("Error") THEN "messageError"
         ELSE IF JSONParse(r.Messages[1][1].Data).ok THEN "messageJson"
         ELSE "messageRaw"
    ELSE IF Truthy(r.Error) THEN "error"
    ELSE IF Truthy(OutputData(r)) THEN "output"
    ELSE "none"

SendInterpret(msgId, r) ==
    LET b    == SendBranch(r)
        msg  == r.Messages[1][1]
        sent == "Message sent successfully!\nMessage ID: " \o msgId
        head == sent \o "\nAction: " \o OrElse(ActionValue(msg), "unknown")
                  \o "\nResponse:\n"
    IN  CASE b = "messageError" ->
               ErrorEnvelope("Message sent (ID: " \o msgId
                               \o ") but process returned error:\n" \o Str(msg.Data))
          [] b = "messageJson" ->
               Envelope(head \o Stringify(JSONParse(msg.Data).val, 0))
          [] b = "messageRaw" -> Envelope(head \o Str(msg.Data))
          [] b = "error" ->
               ErrorEnvelope("Message sent (ID: " \o msgId
                               \o ") but process error: " \o r.Error[1])
          [] b = "output" -> Envelope(sent \o "\nOutput:\n" \o OutputData(r)[1])
          [] OTHER -> Envelope(sent \o "\nNo response data returned.")

\* executeSendMessage from the reply of result to its return.
executeSendMessageResume(msgId, reply) ==
    IF reply.k = "throw"
    THEN ErrorEnvelope("Error sending message: " \o ErrorText(reply.err))
    ELSE SendInterpret(msgId, reply.val)

(***************************************************************************)
(* ao_eval_lua                                                             *)
(***************************************************************************)
\* BlankCode without the trim.
BlankCodeNoTrim(a) == ~Truthy(a.code)

\* !args.code || args.code.trim().length === 0
BlankCode(a) == ~Truthy(a.code) \/ Len(Trim(a.code[1])) = 0

\* executeEvalLua up to its await of message.
executeEvalLua(a, sg) ==
    IF InvalidPid(a) THEN Return(ErrorEnvelope(InvalidPidText(a)))
    ELSE IF BlankCode(a)
    THEN Return(ErrorEnvelope("Error: code is required. Provide Lua code to execute."))
    ELSE IF WalletMissing(a)
    THEN Return(ErrorEnvelope("Error: wallet_json is required for executing Lua code. Provide the JSON content of your Arweave wallet."))
    ELSE IF WalletUnparseable(a)
    THEN Return(ErrorEnvelope(InvalidWalletJsonText))
    ELSE LET jwk == JSONParse(a.wallet_json).val
         IN  IF sg.k = "throw"
             THEN Derived(jwk, Return(ErrorEnvelope("Error executing Lua code: "
                                                      \o ErrorText(sg.err))))
             ELSE Derived(jwk,
                    Await("message",
                          [process |-> a.process_id[1],
                           signer  |-> SignerOf(jwk),
                           tags    |-> <<Tag("Action", Some("Eval"))>>,
                           data    |-> a.code[1]]))

\* A variant that submits the message again when the submission raised.
executeEvalLuaSentRetry(a, reply) ==
    IF reply.k = "throw"
    THEN Await("message",
               [process |-> a.process_id[1],
                signer  |-> SignerOf(JSONParse(a.wallet_json).val),
                tags    |-> <<Tag("Action", Some("Eval"))>>,
                data    |-> a.code[1]])
    ELSE Await("result", [process |-> a.process_id[1], message |-> reply.val])

\* executeEvalLua from the reply of message to its await of result.
executeEvalLuaSent(a, reply) ==
    IF reply.k = "throw"
    THEN Return(ErrorEnvelope("Error executing Lua code: " \o ErrorText(reply.err)))
    ELSE Await("result", [process |-> a.process_id[1], message |-> reply.val])

\* EvalBranch inspecting the returned messages before the error field.
EvalBranchMessagesFirst(r) ==
    IF HasMessages(r)
    THEN IF ActionValue(r.Messages[1][1]) = Some("Error") THEN "messageError"
         ELSE "message"
    ELSE IF Truthy(r.Error) THEN "error"
    ELSE "output"

\* The branch of the outcome interpretation executeEvalLua takes.
EvalBranch(r) ==
    IF Truthy(r.Error) THEN "error"
    ELSE IF HasMessages(r)
    THEN IF ActionValue(r.Messages[1][1]) = Some("Error") THEN "messageError"
         ELSE "message"
    ELSE "output"

EvalInterpret(msgId, r) ==
    LET b      == EvalBranch(r)
        msg    == r.Messages[1][1]
        output == OrElse(OutputData(r), "")
        done   == "Lua code executed successfully!\nMessage ID: " \o msgId
                    \o "\n\nOutput:\n"
                    \o (IF output /= "" THEN output ELSE "(no output)")
    IN  CASE b = "error" -> ErrorEnvelope("Lua execution error:\n" \o r.Error[1])
          [] b = "messageError" ->
               ErrorEnvelope("Lua execution error:\n" \o Str(msg.Data))
          [] b = "message" ->
               Envelope(done \o "\n\nResponse (Action: "
                          \o OrElse(ActionValue(msg), "unknown") \o "):\n"
                          \o OrElse(msg.Data, "(no data)"))
          [] OTHER -> Envelope(done)

\* executeEvalLua from the reply of result to its return.
executeEvalLuaResume(msgId, reply) ==
    IF reply.k = "throw"
    THEN ErrorEnvelope("Error executing Lua code: " \o ErrorText(reply.err))
    ELSE EvalInterpret(msgId, reply.val)

(***************************************************************************)
(* ao_spawn_process                                                        *)
(***************************************************************************)
\* A variant that pushes the Name tag behind the caller's tags.
executeSpawnProcessNameLast(a, sg) ==
    IF WalletMissing(a)
    THEN Return(ErrorEnvelope("Error: wallet_json is required for spawning processes. Provide the JSON content of your Arweave wallet."))
    ELSE IF WalletUnparseable(a)
    THEN Return(ErrorEnvelope(InvalidWalletJsonText))
    ELSE LET jwk == JSONParse(a.wallet_json).val
         IN  IF sg.k = "throw"
             THEN Derived(jwk, Return(ErrorEnvelope("Error spawning process: "
                                                      \o ErrorText(sg.err))))
             ELSE Derived(jwk,
                    Await("spawn",
                          [module    |-> OrElse(a.module, AOS_MODULE),
                           scheduler |-> OrElse(a.scheduler, SCHEDULER),
                           signer    |-> SignerOf(jwk),
                           tags      |->
                             (IF TruthyObj(a.tags) THEN a.tags[1] ELSE << >>)
                               \o (IF Truthy(a.name)
                                   THEN <<Tag("Name", Some(a.name[1]))>>
                                   ELSE << >>)]))

\* executeSpawnProcess up to its await of spawn.
executeSpawnProcess(a, sg) ==
    IF WalletMissing(a)
    THEN Return(ErrorEnvelope("Error: wallet_json is required for spawning processes. Provide the JSON content of your Arweave wallet."))
    ELSE IF WalletUnparseable(a)
    THEN Return(ErrorEnvelope(InvalidWalletJsonText))
    ELSE LET jwk == JSONParse(a.wallet_json).val
         IN  IF sg.k = "throw"
             THEN Derived(jwk, Return(ErrorEnvelope("Error spawning process: "
                                                      \o ErrorText(sg.err))))
             ELSE Derived(jwk,
                    Await("spawn",
                          [module    |-> OrElse(a.module, AOS_MODULE),
                           scheduler |-> OrElse(a.scheduler, SCHEDULER),
                           signer    |-> SignerOf(jwk),
                           tags      |->
                             (IF Truthy(a.name)
                              THEN <<Tag("Name", Some(a.name[1]))>> ELSE << >>)
                               \o (IF TruthyObj(a.tags) THEN a.tags[1] ELSE << >>)]))

\* executeSpawnProcess from the reply of spawn to its return.
executeSpawnProcessResume(a, reply) ==
    IF reply.k = "throw"
    THEN ErrorEnvelope("Error spawning process: " \o ErrorText(reply.err))
    ELSE Envelope("Process spawned successfully!\n\nProcess ID: " \o reply.val
                    \o "\nModule: " \o OrElse(a.module, AOS_MODULE)
                    \o "\nScheduler: " \o OrElse(a.scheduler, SCHEDULER)
                    \o (IF Truthy(a.name) THEN "\nName: " \o a.name[1] ELSE "")
                    \o "\n\nYou can now send messages to this process using the ao_send_message tool.")

(***************************************************************************)
(* ao_list_results                                                         *)
(***************************************************************************)
\* args.limit || 10: an undefined or zero limit is falsy.
LimitOf(a) == IF IsDef(a.limit) /\ a.limit[1] /= 0 THEN a.limit[1] ELSE DefaultLimit

\* executeListResults up to its await of results.
executeListResults(a) ==
    IF InvalidPid(a) THEN Return(ErrorEnvelope(InvalidPidText(a)))
    ELSE Await("results",
               [process |-> a.process_id[1],
                limit   |-> LimitOf(a),
                from    |-> a.from,
                sort    |-> OrElse(a.sort, "DESC")])

\* A variant that marks a string of exactly the preview length as cut.
PreviewMarksAtLimit(s) ==
    SubSeq(s, 1, IF Len(s) < PreviewLength THEN Len(s) ELSE PreviewLength)
      \o (IF Len(s) >= PreviewLength THEN "..." ELSE "")

\* s.substring(0, 200) followed by "..." when s is longer than 200.
Preview(s) ==
    SubSeq(s, 1, IF Len(s) < PreviewLength THEN Len(s) ELSE PreviewLength)
      \o (IF Len(s) > PreviewLength THEN "..." ELSE "")

\* A variant that shows the last message of the edge instead of the first.
FormatEdgeLastMessage(edge, index) ==
    LET node   == edge.node
        output == OrElse(OutputData(node), "")
        msgs   == IF IsDef(node.Messages) THEN node.Messages[1] ELSE << >>
    IN  "--- Result " \o ToString(index + 1) \o " (cursor: " \o edge.cursor
          \o ") ---\n"
          \o (IF Truthy(node.Error) THEN "Error: " \o node.Error[1] \o "\n" ELSE "")
          \o (IF output /= "" THEN "Output: " \o Preview(output) \o "\n" ELSE "")
          \o (IF Len(msgs) > 0
              THEN "Message Action: "
                     \o OrElse(ActionValue(msgs[Len(msgs)]), "unknown") \o "\n"
                     \o (IF Truthy(msgs[Len(msgs)].Data)
                         THEN "Message Data: " \o Preview(msgs[Len(msgs)].Data[1])
                                \o "\n"
                         ELSE "")
              ELSE "")

\* The block rendered for the edge at position index (from 0).
FormatEdge(edge, index) ==
    LET node   == edge.node
        output == OrElse(OutputData(node), "")
        msgs   == IF IsDef(node.Messages) THEN node.Messages[1] ELSE << >>
    IN  "--- Result " \o ToString(index + 1) \o " (cursor: " \o edge.cursor
          \o ") ---\n"
          \o (IF Truthy(node.Error) THEN "Error: " \o node.Error[1] \o "\n" ELSE "")
          \o (IF output /= "" THEN "Output: " \o Preview(output) \o "\n" ELSE "")
          \o (IF Len(msgs) > 0
              THEN "Message Action: " \o OrElse(ActionValue(msgs[1]), "unknown")
                     \o "\n"
                     \o (IF Truthy(msgs[1].Data)
                         THEN "Message Data: " \o Preview(msgs[1].Data[1]) \o "\n"
                         ELSE "")
              ELSE "")

\* res.edges.map(format).join("\n"), the first edge being at position index.
RECURSIVE JoinEdges(_, _)
JoinEdges(edges, index) ==
    FormatEdge(Head(edges), index)
      \o (IF Len(edges) > 1 THEN "\n" \o JoinEdges(Tail(edges), index + 1) ELSE "")

\* A variant without the catch block: a raise of results escapes to the
\* request handler, whose own catch block answers.
executeListResultsResumeUncaught(a, reply) ==
    IF reply.k = "throw"
    THEN ErrorEnvelope("Error: " \o ErrorText(reply.err))
    ELSE IF ~IsDef(reply.val.edges) \/ Len(reply.val.edges[1]) = 0
    THEN Envelope("No results found for process " \o a.process_id[1])
    ELSE Envelope("Results for process " \o a.process_id[1] \o ":\n\n"
                    \o JoinEdges(reply.val.edges[1], 0))

\* executeListResults from the reply of results to its return.
executeListResultsResume(a, reply) ==
    IF reply.k = "throw"
    THEN ErrorEnvelope("Error listing results: " \o ErrorText(reply.err))
    ELSE IF ~IsDef(reply.val.edges) \/ Len(reply.val.edges[1]) = 0
    THEN Envelope("No results found for process " \o a.process_id[1])
    ELSE Envelope("Results for process " \o a.process_id[1] \o ":\n\n"
                    \o JoinEdges(reply.val.edges[1], 0))

(***************************************************************************)
(* Tool registry, dispatcher and the "call tool" request handler.          *)
(***************************************************************************)
TOOLS ==
    <<"ao_query_process", "ao_send_message", "ao_spawn_process", "ao_eval_lua",
      "ao_list_results">>

\* handleToolCall matching the tool name without regard to case.
handleToolCallAnyCase(name, a, sg) ==
    CASE name \in {"ao_query_process", "AO_QUERY_PROCESS"} ->
           [exec |-> "executeQueryProcess", step |-> executeQueryProcess(a)]
      [] name = "ao_send_message" ->
           [exec |-> "executeSendMessage", step |-> executeSendMessage(a, sg)]
      [] name = "ao_spawn_process" ->
           [exec |-> "executeSpawnProcess", step |-> executeSpawnProcess(a, sg)]
      [] name = "ao_eval_lua" ->
           [exec |-> "executeEvalLua", step |-> executeEvalLua(a, sg)]
      [] name = "ao_list_results" ->
           [exec |-> "executeListResults", step |-> executeListResults(a)]
      [] OTHER ->
           [exec |-> "none",
            step |-> Return(ErrorEnvelope("Unknown tool: " \o name))]

\* handleToolCall up to the first await of the executor it selects: the
\* executor invoked ("none" in the default case) and the step it took.
handleToolCall(name, a, sg) ==
    CASE name = "ao_query_process" ->
           [exec |-> "executeQueryProcess", step |-> executeQueryProcess(a)]
      [] name = "ao_send_message" ->
           [exec |-> "executeSendMessage", step |-> executeSendMessage(a, sg)]
      [] name = "ao_spawn_process" ->
           [exec |-> "executeSpawnProcess", step |-> executeSpawnProcess(a, sg)]
      [] name = "ao_eval_lua" ->
           [exec |-> "executeEvalLua", step |-> executeEvalLua(a, sg)]
      [] name = "ao_list_results" ->
           [exec |-> "executeListResults", step |-> executeListResults(a)]
      [] OTHER ->
           [exec |-> "none",
            step |-> Return(ErrorEnvelope("Unknown tool: " \o name))]

\* The arguments object of a request that carries none: {}.
EmptyArgs ==
    [process_id |-> Undef, action |-> Undef, data |-> Undef, tags |-> Undef,
     wallet_json |-> Undef, code |-> Undef, name |-> Undef, module |-> Undef,
     scheduler |-> Undef, limit |-> Undef, from |-> Undef, sort |-> Undef]

\* args ?? {}
ArgsOrEmpty(arguments) == IF IsDef(arguments) THEN arguments[1] ELSE EmptyArgs

\* CallToolResult without the catch clause's content item.
CallToolResultNoContent(outcome) ==
    IF outcome.k = "throw"
    THEN [content |-> << >>, isError |-> TRUE]
    ELSE outcome.val

\* What the call-tool handler returns for the outcome of
\* await handleToolCall(name, args ?? {}): the result, or the envelope of
\* its catch clause.
CallToolResult(outcome) ==
    IF outcome.k = "throw"
    THEN ErrorEnvelope("Error: " \o ErrorText(outcome.err))
    ELSE outcome.val

(***************************************************************************)
(* The requests the transport delivers and the replies of the network      *)
(* client the model draws from.                                            *)
(***************************************************************************)
ValidPid == "AAAAAAAAAAAAAAAAAAAAAAAAAAAAAAAAAAAAAAAAAAA"
Pids == {Undef, Some(""), Some("short"), Some(ValidPid), Some(ValidPid \o "A")}
Actions == {Undef, Some(""), Some("GetState")}
ActionTag == Tag("Action", Some("Other"))
RefTag == Tag("X-Ref", Some("7"))
TagChoices ==
    {Undef, Some(<< >>), Some(<<ActionTag>>), Some(<<ActionTag, RefTag>>),
     Some(<<RefTag, ActionTag>>)}
SpawnTagChoices == {Undef, Some(<<ActionTag, RefTag>>)}
Datas == {Undef, Some("{\"n\":1}")}
GoodWalletJson == Some("{\"kty\":\"RSA\"}")
Wallets == {Undef, Some(""), Some("not json"), Some("{\"kty\":\"RSA\"}")}
Codes == {Undef, Some(""), Some(" \n\t "), Some("return 1")}
ProcessNames == {Undef, Some(""), Some("Forge")}
Modules == {Undef, Some(""), Some("module-XYZ")}
Schedulers == {Undef, Some(""), Some("scheduler-XYZ")}
Limits == {Undef, Some(0), Some(5)}
Cursors == {Undef, Some("cursor-9")}
Sorts == {Undef, Some("ASC")}

ToolNames ==
    {TOOLS[i] : i \in 1..Len(TOOLS)} \cup {"ao_nonexistent", "AO_QUERY_PROCESS", ""}

QueryArgs ==
    {[EmptyArgs EXCEPT !.process_id = p, !.action = ac, !.tags = t] :
        p \in Pids, ac \in Actions, t \in TagChoices}
    \cup {[EmptyArgs EXCEPT !.process_id = p, !.action = Some("GetState"),
                            !.data = d] :
             p \in Pids, d \in Datas}
SendArgs ==
    {[EmptyArgs EXCEPT !.process_id = p, !.action = ac, !.tags = t,
                       !.wallet_json = w] :
        p \in Pids, ac \in Actions, t \in TagChoices, w \in Wallets}
    \cup {[EmptyArgs EXCEPT !.process_id = p, !.action = Some("GetState"),
                            !.data = d, !.wallet_json = w] :
             p \in Pids, d \in Datas, w \in Wallets}
\* Module and scheduler are both supplied, or each is omitted or empty.
SpawnTargets ==
    {t \in Modules \X Schedulers :
        (t[1] = Some("module-XYZ")) <=> (t[2] = Some("scheduler-XYZ"))}
SpawnArgs ==
    {[EmptyArgs EXCEPT !.name = n, !.module = t[1], !.scheduler = t[2],
                       !.tags = ts, !.wallet_json = w] :
        n \in ProcessNames, t \in SpawnTargets, ts \in SpawnTagChoices,
        w \in Wallets}
EvalArgs ==
    {[EmptyArgs EXCEPT !.process_id = p, !.code = c, !.wallet_json = w] :
        p \in Pids, c \in Codes, w \in Wallets}
ListArgs ==
    {[EmptyArgs EXCEPT !.process_id = p, !.limit = l, !.from = f, !.sort = so] :
        p \in Pids, l \in Limits, f \in Cursors, so \in Sorts}

\* The arguments a request for the tool name may carry; none at all included.
ArgumentsFor(name) ==
    {Undef} \cup
    {Some(a) : a \in
        CASE name = "ao_query_process" -> QueryArgs
          [] name = "ao_send_message"  -> SendArgs
          [] name = "ao_spawn_process" -> SpawnArgs
          [] name = "ao_eval_lua"      -> EvalArgs
          [] name = "ao_list_results"  -> ListArgs
          [] OTHER -> {[EmptyArgs EXCEPT !.process_id = Some(ValidPid),
                                         !.wallet_json = Some("{\"kty\":\"RSA\"}"),
                                         !.code = Some("return 1")]}}

Throws ==
    {Raised([isErrorObj |-> TRUE, message |-> "fetch failed"]),
     Raised([isErrorObj |-> FALSE, message |-> ""])}

SignerOutcomes == {Returned("signer")} \cup Throws

ErrorMsg == [Tags |-> Some(<<Tag("Action", Some("Error"))>>), Data |-> Some("boom")]
JsonMsg ==
    [Tags |-> Some(<<Tag("Ref", Some("1")), Tag("Action", Some("Info")),
                     Tag("Action", Some("Error"))>>),
     Data |-> Some("{\"ok\":true}")]
RawMsg == [Tags |-> Undef, Data |-> Some("plain text")]
MessageLists ==
    {Undef, Some(<< >>), Some(<<ErrorMsg>>), Some(<<JsonMsg>>),
     Some(<<RawMsg, ErrorMsg>>)}
Outputs == {Undef, Some([data |-> Some("printed-output")])}
Errors == {Undef, Some("handler-failed")}
\* Without a returned message, every combination of output and error field;
\* with one, neither or both of them.
Responses ==
    {r \in [Messages : MessageLists, Output : Outputs, Error : Errors] :
        (IsDef(r.Messages) /\ Len(r.Messages[1]) > 0)
            => (IsDef(r.Output) <=> IsDef(r.Error))}

DryrunReplies == {Returned(r) : r \in Responses} \cup Throws
MessageReplies == {Returned("mid-1"), Returned("mid-2")} \cup Throws
ResultReplies == DryrunReplies
SpawnReplies == {Returned("BBBBBBBBBBBBBBBBBBBBBBBBBBBBBBBBBBBBBBBBBBB")} \cup Throws
Edge1 ==
    [cursor |-> "c1",
     node |-> [Output |-> Some([data |-> Some("first-output")]),
               Messages |-> Some(<<JsonMsg, RawMsg>>), Error |-> Undef]]
Edge2 ==
    [cursor |-> "c2",
     node |-> [Output |-> Undef, Messages |-> Undef, Error |-> Some("edge-error")]]
\* The string of n characters that cycles through the alphabet.
RECURSIVE Fill(_, _)
Fill(n, alphabet) ==
    IF n <= Len(alphabet) THEN SubSeq(alphabet, 1, n)
    ELSE alphabet \o Fill(n - Len(alphabet), alphabet)
\* Field values at the preview length and one character beyond it.
AtLimit == Fill(PreviewLength, "0123456789")
OverLimit == Fill(PreviewLength + 1, "abcdefghij")
EdgeAtLimit ==
    [cursor |-> "c3",
     node |-> [Output |-> Some([data |-> Some(AtLimit)]),
               Messages |-> Some(<<[Tags |-> Undef, Data |-> Some(OverLimit)]>>),
               Error |-> Undef]]
EdgeOverLimit ==
    [cursor |-> "c4",
     node |-> [Output |-> Some([data |-> Some(OverLimit)]),
               Messages |-> Some(<<[Tags |-> Undef, Data |-> Some(AtLimit)]>>),
               Error |-> Undef]]
EdgeLists ==
    {Undef, Some(<< >>), Some(<<Edge1>>), Some(<<Edge2, Edge1>>),
     Some(<<EdgeAtLimit>>), Some(<<EdgeOverLimit>>)}
ResultsReplies == {Returned([edges |-> e]) : e \in EdgeLists} \cup Throws

(***************************************************************************)
(* State: one record per call slot.                                        *)
(*   pc        "idle", "done", or the network operation the handler is     *)
(*             suspended on ("dryrun", "message", "result", "spawn",       *)
(*             "results")                                                  *)
(*   name, arguments   request.params of the call being handled            *)
(*   exec      the executor the dispatcher invoked                         *)
(*   log       the external calls made for this call, in order             *)
(*   msgId     the identifier message() returned                           *)
(*   reply     the reply to the last await                                 *)
(*   result    the envelope the handler returned                           *)
(***************************************************************************)
VARIABLES call
vars == <<call>>

Calls == 1..MaxCalls

IdleSlot ==
    [pc |-> "idle", name |-> "", arguments |-> Undef, exec |-> "none",
     log |-> << >>, msgId |-> Undef, reply |-> Undef, result |-> Undef]

Init == call = [c \in Calls |-> IdleSlot]

\* The handler's promise chain runs to the response before the event loop
\* delivers anything else: a finished call is answered first.
NoneDone == \A c \in DOMAIN call : call[c].pc /= "done"

\* The slot after the executor took the step.
Advance(slot, step) ==
    IF step.k = "return"
    THEN [slot EXCEPT !.pc = "done", !.log = @ \o step.ext,
                      !.result = Some(CallToolResult(Returned(step.env)))]
    ELSE [slot EXCEPT !.pc = step.op,
                      !.log = @ \o step.ext \o <<[op |-> step.op, req |-> step.req]>>]

\* The transport delivers a "call tool" request; the handler runs to the
\* executor's first await or to its return.
CallTool(c) ==
    /\ NoneDone
    /\ call[c].pc = "idle"
    /\ \E name \in ToolNames, sg \in SignerOutcomes :
         \E arguments \in ArgumentsFor(name) :
            LET d == handleToolCall(name, ArgsOrEmpty(arguments), sg)
            IN  call' = [call EXCEPT ![c] =
                           Advance([IdleSlot EXCEPT !.name = name,
                                                    !.arguments = arguments,
                                                    !.exec = d.exec],
                                   d.step)]

\* dryrun replies: executeQueryProcess resumes and returns.
DryrunReply(c) ==
    /\ NoneDone
    /\ call[c].pc = "dryrun"
    /\ \E reply \in DryrunReplies :
         call' = [call EXCEPT ![c] =
                    Advance([@ EXCEPT !.reply = Some(reply)],
                            Return(executeQueryProcessResume(reply)))]

\* message replies: executeSendMessage or executeEvalLua resumes, and
\* awaits result or returns.
MessageReply(c) ==
    /\ NoneDone
    /\ call[c].pc = "message"
    /\ \E reply \in MessageReplies :
         LET a == ArgsOrEmpty(call[c].arguments)
             step == IF call[c].exec = "executeSendMessage"
                     THEN executeSendMessageSent(a, reply)
                     ELSE executeEvalLuaSent(a, reply)
         IN  call' = [call EXCEPT ![c] =
                        Advance([@ EXCEPT !.reply = Some(reply),
                                          !.msgId = IF reply.k = "ok"
                                                    THEN Some(reply.val) ELSE Undef],
                                step)]

\* A variant that keeps the message identifier in one place for all calls:
\* the outcome is reported under the identifier of the highest slot that
\* holds one.
ResultReplySharedId(c) ==
    /\ NoneDone
    /\ call[c].pc = "result"
    /\ \E reply \in ResultReplies :
         LET holder == CHOOSE d \in DOMAIN call :
                          /\ IsDef(call[d].msgId)
                          /\ \A e \in DOMAIN call : IsDef(call[e].msgId) => e <= d
             env == IF call[c].exec = "executeSendMessage"
                    THEN executeSendMessageResume(call[holder].msgId[1], reply)
                    ELSE executeEvalLuaResume(call[holder].msgId[1], reply)
         IN  call' = [call EXCEPT ![c] =
                        Advance([@ EXCEPT !.reply = Some(reply)], Return(env))]

\* result replies: executeSendMessage or executeEvalLua resumes and returns.
ResultReply(c) ==
    /\ NoneDone
    /\ call[c].pc = "result"
    /\ \E reply \in ResultReplies :
         LET env == IF call[c].exec = "executeSendMessage"
                    THEN executeSendMessageResume(call[c].msgId[1], reply)
                    ELSE executeEvalLuaResume(call[c].msgId[1], reply)
         IN  call' = [call EXCEPT ![c] =
                        Advance([@ EXCEPT !.reply = Some(reply)], Return(env))]

\* spawn replies: executeSpawnProcess resumes and returns.
SpawnReply(c) ==
    /\ NoneDone
    /\ call[c].pc = "spawn"
    /\ \E reply \in SpawnReplies :
         call' = [call EXCEPT ![c] =
                    Advance([@ EXCEPT !.reply = Some(reply)],
                            Return(executeSpawnProcessResume(
                                     ArgsOrEmpty(call[c].arguments), reply)))]

\* results replies: executeListResults resumes and returns.
ResultsReply(c) ==
    /\ NoneDone
    /\ call[c].pc = "results"
    /\ \E reply \in ResultsReplies :
         call' = [call EXCEPT ![c] =
                    Advance([@ EXCEPT !.reply = Some(reply)],
                            Return(executeListResultsResume(
                                     ArgsOrEmpty(call[c].arguments), reply)))]

\* The envelope goes back to the transport; nothing of the call is kept.
Respond(c) ==
    /\ call[c].pc = "done"
    /\ call' = [call EXCEPT ![c] = IdleSlot]

Next ==
    \E c \in Calls :
        \/ CallTool(c)
        \/ DryrunReply(c)
        \/ MessageReply(c)
        \/ ResultReply(c)
        \/ SpawnReply(c)
        \/ ResultsReply(c)
        \/ Respond(c)

Spec == Init /\ [][Next]_vars

(***************************************************************************)
(* Interleaved calls: one handler more than Calls is in flight, and the    *)
(* transport also delivers "list tools" requests.  The requests are drawn  *)
(* from one request per tool, so that every reply to every await of two    *)
(* calls at a time is explored.                                            *)
(***************************************************************************)
Slots == 1..(MaxCalls + 1)

InitInterleaved == call = [c \in Slots |-> IdleSlot]

\* The "call tool" requests delivered while calls interleave.
ProbeRequests ==
    {[name |-> "ao_query_process",
      arguments |-> Some([EmptyArgs EXCEPT !.process_id = Some(ValidPid),
                                           !.action = Some("GetState")])],
     [name |-> "ao_send_message",
      arguments |-> Some([EmptyArgs EXCEPT !.process_id = Some(ValidPid),
                                           !.action = Some("GetState"),
                                           !.wallet_json = GoodWalletJson])],
     [name |-> "ao_spawn_process",
      arguments |-> Some([EmptyArgs EXCEPT !.name = Some("Forge"),
                                           !.wallet_json = GoodWalletJson])],
     [name |-> "ao_list_results",
      arguments |-> Some([EmptyArgs EXCEPT !.process_id = Some(ValidPid)])],
     [name |-> "ao_eval_lua",
      arguments |-> Some([EmptyArgs EXCEPT !.process_id = Some(ValidPid),
                                           !.code = Some("return 1"),
                                           !.wallet_json = GoodWalletJson])],
     [name |-> "ao_eval_lua", arguments |-> Undef]}

\* The transport delivers one of the probe requests.
CallProbe(c) ==
    /\ NoneDone
    /\ call[c].pc = "idle"
    /\ \E request \in ProbeRequests, sg \in SignerOutcomes :
         LET d == handleToolCall(request.name, ArgsOrEmpty(request.arguments), sg)
         IN  call' = [call EXCEPT ![c] =
                        Advance([IdleSlot EXCEPT !.name = request.name,
                                                 !.arguments = request.arguments,
                                                 !.exec = d.exec],
                                d.step)]

\* The transport delivers a "list tools" request; its handler returns the
\* registry without awaiting anything.
ListTools(c) ==
    /\ NoneDone
    /\ call[c].pc = "idle"
    /\ call' = [call EXCEPT ![c] =
                  [IdleSlot EXCEPT !.pc = "done", !.name = "tools/list",
                                   !.exec = "listTools",
                                   !.result = Some([tools |-> TOOLS])]]

NextInterleaved ==
    \E c \in Slots :
        \/ CallProbe(c)
        \/ ListTools(c)
        \/ DryrunReply(c)
        \/ MessageReply(c)
        \/ ResultReply(c)
        \/ SpawnReply(c)
        \/ ResultsReply(c)
        \/ Respond(c)

SpecInterleaved == InitInterleaved /\ [][NextInterleaved]_vars

(***************************************************************************)
(* Properties.                                                             *)
(***************************************************************************)
Args(c) == ArgsOrEmpty(call[c].arguments)
Started(c) == call[c].pc /= "idle"
Done(c) == call[c].pc = "done"
Result(c) == call[c].result[1]
Text(c) == TextOf(Result(c))

NetworkOps == {"dryrun", "message", "result", "spawn", "results"}
NetworkCalls(c) == SelectSeq(call[c].log, LAMBDA e : e.op \in NetworkOps)
SignerCalls(c) == SelectSeq(call[c].log, LAMBDA e : e.op = "createDataItemSigner")

PidExecutors ==
    {"executeQueryProcess", "executeSendMessage", "executeEvalLua",
     "executeListResults"}
WriteExecutors == {"executeSendMessage", "executeSpawnProcess", "executeEvalLua"}
GoodWallet == Some("{\"kty\":\"RSA\"}")

\* The process identifier is absent or its length is not 43.
PidNot43(a) == ~IsDef(a.process_id) \/ Len(a.process_id[1]) /= 43

\* C1: a call of query, send-message, evaluate-code or list-results whose
\* process identifier is absent or not 43 characters long has returned an
\* error envelope and has called neither the signer derivation nor the
\* network client, whatever its other arguments.
C1_InvalidPidFailsFast ==
    \A c \in Calls :
        (Started(c) /\ call[c].exec \in PidExecutors /\ PidNot43(Args(c)))
            => /\ Done(c)
               /\ IsErr(Result(c))
               /\ NetworkCalls(c) = << >>
               /\ call[c].log = << >>

\* A send-message call with a 5-character identifier and an otherwise valid
\* request has been answered.
C1_Witness ==
    \E c \in Calls :
        /\ Done(c)
        /\ call[c].exec = "executeSendMessage"
        /\ Args(c).process_id = Some("short")
        /\ Args(c).wallet_json = GoodWallet
        /\ Text(c) = "Error: Invalid process ID \"short\". Must be a 43-character Arweave transaction ID."

\* The wallet key material is absent, empty or not valid JSON.
BadWallet(a) ==
    \/ ~IsDef(a.wallet_json)
    \/ a.wallet_json[1] = ""
    \/ ~JSONParse(a.wallet_json).ok

\* The validations an executor runs before it looks at the wallet pass.
EarlierValidationsPass(c) ==
    /\ call[c].exec \in {"executeSendMessage", "executeEvalLua"}
         => ~PidNot43(Args(c))
    /\ call[c].exec = "executeEvalLua"
         => (IsDef(Args(c).code) /\ Trim(Args(c).code[1]) /= "")

\* C2 as stated: on a write path, unusable wallet key material yields an
\* error envelope mentioning "wallet" before any signer derivation or
\* network call, whatever the other arguments are.
C2_Original ==
    \A c \in Calls :
        (Started(c) /\ call[c].exec \in WriteExecutors /\ BadWallet(Args(c)))
            => /\ Done(c)
               /\ IsErr(Result(c))
               /\ Contains(Text(c), "wallet")
               /\ call[c].log = << >>

\* C2 as amended: on a write path, unusable wallet key material yields an
\* error envelope before any signer derivation or network call; its text
\* mentions "wallet" whenever the validations that run before the wallet's
\* (process identifier, and code for evaluate-code) pass.
C2_BadWalletFailsFast ==
    \A c \in Calls :
        (Started(c) /\ call[c].exec \in WriteExecutors /\ BadWallet(Args(c)))
            => /\ Done(c)
               /\ IsErr(Result(c))
               /\ SignerCalls(c) = << >>
               /\ NetworkCalls(c) = << >>
               /\ EarlierValidationsPass(c) => Contains(Text(c), "wallet")

\* An evaluate-code call with a valid identifier and code but a wallet that
\* is not JSON has been answered.
C2_Witness ==
    \E c \in Calls :
        /\ Done(c)
        /\ call[c].exec = "executeEvalLua"
        /\ Args(c).process_id = Some(ValidPid)
        /\ Args(c).code = Some("return 1")
        /\ Args(c).wallet_json = Some("not json")
        /\ IsErr(Result(c))
        /\ call[c].log = << >>

\* C3: an evaluate-code call whose code is absent, empty or only whitespace
\* has returned an error envelope without deriving a signer or calling the
\* network client, also when identifier and wallet are valid.
C3_BlankCodeFailsFast ==
    \A c \in Calls :
        (/\ Started(c)
         /\ call[c].exec = "executeEvalLua"
         /\ (~IsDef(Args(c).code) \/ Trim(Args(c).code[1]) = ""))
            => /\ Done(c)
               /\ IsErr(Result(c))
               /\ call[c].log = << >>

\* An evaluate-code call with whitespace-only code, a valid identifier and a
\* valid wallet has been answered.
C3_Witness ==
    \E c \in Calls :
        /\ Done(c)
        /\ call[c].exec = "executeEvalLua"
        /\ Args(c).process_id = Some(ValidPid)
        /\ Args(c).wallet_json = GoodWallet
        /\ Args(c).code = Some(" \n\t ")
        /\ Text(c) = "Error: code is required. Provide Lua code to execute."

\* The executor registered under a tool name, and the network operations it
\* may use.
ExecutorOf(name) ==
    CASE name = "ao_query_process" -> "executeQueryProcess"
      [] name = "ao_send_message" -> "executeSendMessage"
      [] name = "ao_spawn_process" -> "executeSpawnProcess"
      [] name = "ao_eval_lua" -> "executeEvalLua"
      [] name = "ao_list_results" -> "executeListResults"
      [] OTHER -> "none"
OpsOf(exec) ==
    CASE exec = "executeQueryProcess" -> {"dryrun"}
      [] exec = "executeSendMessage" -> {"createDataItemSigner", "message", "result"}
      [] exec = "executeSpawnProcess" -> {"createDataItemSigner", "spawn"}
      [] exec = "executeEvalLua" -> {"createDataItemSigner", "message", "result"}
      [] exec = "executeListResults" -> {"results"}
      [] OTHER -> {}

\* C4: the dispatcher invokes, for each registered name, its own executor
\* and only that one; for any other name it invokes none, makes no external
\* call and returns the error envelope "Unknown tool: <name>".
C4_DispatchExact ==
    \A c \in Calls :
        Started(c) =>
            /\ call[c].exec = ExecutorOf(call[c].name)
            /\ \A i \in 1..Len(call[c].log) : call[c].log[i].op \in OpsOf(call[c].exec)
            /\ ExecutorOf(call[c].name) = "none" =>
                 /\ Done(c)
                 /\ call[c].log = << >>
                 /\ Result(c) = [content |-> <<[type |-> "text",
                                               text |-> "Unknown tool: " \o call[c].name]>>,
                                 isError |-> TRUE]

\* The unknown name "ao_nonexistent" has been answered.
C4_Witness ==
    \E c \in Calls :
        /\ Done(c)
        /\ call[c].name = "ao_nonexistent"
        /\ IsErr(Result(c))
        /\ Text(c) = "Unknown tool: ao_nonexistent"

\* An envelope with exactly one content item, of type text.
OneTextItem(env) ==
    /\ Len(env.content) = 1
    /\ DOMAIN env.content[1] = {"type", "text"}
    /\ env.content[1].type = "text"

\* C5: every finished call carries a result envelope with exactly one text
\* content item, and the handler turns a raise of the dispatcher into the
\* error envelope "Error: <message>" or "Error: Unknown error".
C5_OneTextItem ==
    /\ \A c \in Calls : Done(c) => (IsDef(call[c].result) /\ OneTextItem(Result(c)))
    /\ \A c \in Calls : IsDef(call[c].result) => Done(c)
    /\ \A t \in Throws :
         /\ OneTextItem(CallToolResult(t))
         /\ IsErr(CallToolResult(t))
         /\ TextOf(CallToolResult(t)) =
              "Error: " \o (IF t.err.isErrorObj THEN t.err.message ELSE "Unknown error")

\* A send-message call whose outcome fetch raised has been answered.
C5_Witness ==
    \E c \in Calls :
        /\ Done(c)
        /\ call[c].exec = "executeSendMessage"
        /\ Len(NetworkCalls(c)) = 2
        /\ call[c].reply[1].k = "throw"
        /\ OneTextItem(Result(c))

(***************************************************************************)
(* Interpretation of the response of dryrun and of the outcome of result.  *)
(***************************************************************************)
\* The call is finished and its last await returned the response r.
Fetched(c, op) ==
    /\ Done(c)
    /\ IsDef(call[c].reply)
    /\ call[c].reply[1].k = "ok"
    /\ Len(NetworkCalls(c)) > 0
    /\ NetworkCalls(c)[Len(NetworkCalls(c))].op = op
Outcome(c) == call[c].reply[1].val

FirstMessage(r) == r.Messages[1][1]

\* The value of the first tag named Action of the message is "Error".
TaggedError(msg) ==
    /\ IsDef(msg.Tags)
    /\ \E i \in 1..Len(msg.Tags[1]) :
         /\ msg.Tags[1][i] = [name |-> "Action", value |-> Some("Error")]
         /\ \A j \in 1..(i - 1) : msg.Tags[1][j].name /= "Action"

FirstMessageIsError(r) == HasMessages(r) /\ TaggedError(FirstMessage(r))
OutputPresent(r) ==
    IsDef(r.Output) /\ IsDef(r.Output[1].data) /\ r.Output[1].data[1] /= ""
ErrorPresent(r) == IsDef(r.Error) /\ r.Error[1] /= ""

\* The data of a message as a successful result shows it.
Rendered(data) ==
    IF JSONParse(data).ok THEN Stringify(JSONParse(data).val, 0) ELSE Str(data)

\* C6: the query executor picks its result in the order: Error-tagged first
\* message (error envelope with its data); any first message (its data,
\* pretty-printed when JSON); direct output, also beside an error field;
\* error field (error envelope); else the non-error "no response" text.
C6_QueryPriority ==
    \A c \in Calls :
        (Fetched(c, "dryrun") /\ call[c].exec = "executeQueryProcess") =>
            LET r == Outcome(c)
            IN  CASE FirstMessageIsError(r) ->
                       /\ IsErr(Result(c))
                       /\ EndsWith(Text(c), Str(FirstMessage(r).Data))
                  [] HasMessages(r) /\ ~FirstMessageIsError(r) ->
                       /\ ~IsErr(Result(c))
                       /\ EndsWith(Text(c), "):\n" \o Rendered(FirstMessage(r).Data))
                  [] ~HasMessages(r) /\ OutputPresent(r) ->
                       /\ ~IsErr(Result(c))
                       /\ Text(c) = "Process output:\n" \o r.Output[1].data[1]
                  [] ~HasMessages(r) /\ ~OutputPresent(r) /\ ErrorPresent(r) ->
                       /\ IsErr(Result(c))
                       /\ Text(c) = "Process error: " \o r.Error[1]
                  [] OTHER ->
                       /\ ~IsErr(Result(c))
                       /\ StartsWith(Text(c), "No response from process.")

\* A query whose response carries no message but both a direct output and
\* an error field has been answered with the output.
C6_Witness ==
    \E c \in Calls :
        /\ Fetched(c, "dryrun")
        /\ ~HasMessages(Outcome(c))
        /\ OutputPresent(Outcome(c))
        /\ ErrorPresent(Outcome(c))
        /\ ~IsErr(Result(c))
        /\ Text(c) = "Process output:\nprinted-output"

\* The branch names of the two executors agree and so do their error flags.
SameReading(r) ==
    /\ QueryBranch(r) = SendBranch(r)
    /\ IsErr(QueryInterpret(r)) = IsErr(SendInterpret("mid-1", r))

\* The result of the finished call is the one its own executor computes.
OwnReading(c) ==
    IF call[c].exec = "executeQueryProcess"
    THEN Result(c) = QueryInterpret(Outcome(c))
    ELSE Result(c) = SendInterpret(call[c].msgId[1], Outcome(c))

QueryOrSendFetched(c) ==
    \/ Fetched(c, "dryrun") /\ call[c].exec = "executeQueryProcess"
    \/ Fetched(c, "result") /\ call[c].exec = "executeSendMessage"

\* C7 as stated: for every outcome shape the send-message executor and the
\* query executor select the same branch and agree on the error flag.
C7_Original ==
    \A c \in Calls :
        QueryOrSendFetched(c) => (OwnReading(c) /\ SameReading(Outcome(c)))

\* C7 as amended: the two executors select the same branch and agree on the
\* error flag for every outcome shape except the one with no returned
\* message and both a direct output and an error field; there the query
\* executor returns the output (no error) and send-message the error field
\* (error envelope).
C7_SamePriorityButOutputError ==
    \A c \in Calls :
        QueryOrSendFetched(c) =>
            LET r == Outcome(c)
            IN  /\ OwnReading(c)
                /\ IF ~HasMessages(r) /\ OutputPresent(r) /\ ErrorPresent(r)
                   THEN /\ QueryBranch(r) = "output"
                        /\ SendBranch(r) = "error"
                        /\ ~IsErr(QueryInterpret(r))
                        /\ IsErr(SendInterpret("mid-1", r))
                        /\ IsErr(Result(c)) = (call[c].exec = "executeSendMessage")
                   ELSE SameReading(r)

\* A send-message call whose outcome carries no message but both a direct
\* output and an error field has been answered with an error envelope, where
\* a query answers with the output.
C7_Witness ==
    \E c \in Calls :
        /\ Fetched(c, "result")
        /\ call[c].exec = "executeSendMessage"
        /\ ~HasMessages(Outcome(c))
        /\ OutputPresent(Outcome(c))
        /\ ErrorPresent(Outcome(c))
        /\ IsErr(Result(c))
        /\ Text(c) = "Message sent (ID: mid-2) but process error: handler-failed"
        /\ ~IsErr(QueryInterpret(Outcome(c)))

\* The text of the remote rejection the error envelope reports.
ShowsRejection(text, r) ==
    \/ ErrorPresent(r) /\ Contains(text, r.Error[1])
    \/ FirstMessageIsError(r) /\ Contains(text, Str(FirstMessage(r).Data))

\* C8: on send-message and evaluate-code, an error envelope returned for a
\* fetched outcome contains the rejection text and the generated message
\* identifier, and every send-message result returned after the outcome
\* fetch contains the message identifier.
C8_RejectionCarriesMessageId ==
    \A c \in Calls :
        (/\ Fetched(c, "result")
         /\ call[c].exec \in {"executeSendMessage", "executeEvalLua"}) =>
            /\ IsErr(Result(c)) =>
                 /\ ShowsRejection(Text(c), Outcome(c))
                 /\ Contains(Text(c), call[c].msgId[1])
            /\ call[c].exec = "executeSendMessage" =>
                 Contains(Text(c), call[c].msgId[1])

CallerTags(a) == IF IsDef(a.tags) THEN a.tags[1] ELSE << >>

\* C10: every tag sequence passed to dryrun or message starts with an
\* Action tag: the supplied action ("Info" for a query without one), "Eval"
\* for evaluate-code.  Query and send-message append the caller's tags in
\* order behind it; evaluate-code sends that one tag only.
C10_ActionTagFirst ==
    \A c \in Calls :
        \A i \in 1..Len(call[c].log) :
            call[c].log[i].op \in {"dryrun", "message"} =>
                LET tags == call[c].log[i].req.tags
                    a == Args(c)
                IN  /\ Len(tags) >= 1
                    /\ tags[1].name = "Action"
                    /\ call[c].exec = "executeQueryProcess" =>
                         /\ tags[1].value =
                              (IF IsDef(a.action) /\ a.action[1] /= ""
                               THEN a.action ELSE Some("Info"))
                         /\ Tail(tags) = CallerTags(a)
                    /\ call[c].exec = "executeSendMessage" =>
                         /\ tags[1].value = a.action
                         /\ Tail(tags) = CallerTags(a)
                    /\ call[c].exec = "executeEvalLua" =>
                         tags = <<[name |-> "Action", value |-> Some("Eval")]>>

\* A query without an action whose caller tags start with a tag named
\* Action is suspended on dryrun.
C10_Witness ==
    \E c \in Calls :
        /\ call[c].pc = "dryrun"
        /\ Args(c).action = Undef
        /\ Args(c).tags = Some(<<ActionTag, RefTag>>)
        /\ call[c].log[1].req.tags =
             <<[name |-> "Action", value |-> Some("Info")], ActionTag, RefTag>>

\* The value sent for an optional string argument: the argument when it is
\* supplied and not empty, the default otherwise.
SuppliedOr(o, default) == IF IsDef(o) /\ o[1] /= "" THEN o[1] ELSE default

\* The call has issued a spawn.
SpawnIssued(c) == \E i \in 1..Len(call[c].log) : call[c].log[i].op = "spawn"

\* The request of the call's spawn, once issued.
SpawnRequest(c) ==
    (CHOOSE e \in {call[c].log[i] : i \in 1..Len(call[c].log)} : e.op = "spawn").req

\* C11: the tag sequence of a spawn request is the caller's tags in order,
\* preceded by exactly one Name tag when a non-empty name was supplied and
\* by nothing otherwise (no Action tag is added); module and scheduler are
\* the supplied values, or the default constants when omitted or empty; the
\* success text reports the returned process identifier with the module and
\* scheduler that were sent.
C11_SpawnRequest ==
    \A c \in Calls :
        SpawnIssued(c) =>
            LET a == Args(c)
                req == SpawnRequest(c)
            IN  /\ req.tags =
                     (IF IsDef(a.name) /\ a.name[1] /= ""
                      THEN <<[name |-> "Name", value |-> a.name]>> ELSE << >>)
                       \o CallerTags(a)
                /\ req.module = SuppliedOr(a.module, AOS_MODULE)
                /\ req.scheduler = SuppliedOr(a.scheduler, SCHEDULER)
                /\ (Done(c) /\ ~IsErr(Result(c))) =>
                     Contains(Text(c),
                              "Process ID: " \o Outcome(c)
                                \o "\nModule: " \o req.module
                                \o "\nScheduler: " \o req.scheduler)

\* A spawn with a name, caller tags, an empty module and no scheduler has
\* succeeded: the defaults were sent and are reported.
C11_Witness ==
    \E c \in Calls :
        /\ Done(c)
        /\ call[c].exec = "executeSpawnProcess"
        /\ ~IsErr(Result(c))
        /\ Args(c).name = Some("Forge")
        /\ Args(c).tags = Some(<<ActionTag, RefTag>>)
        /\ Args(c).module = Some("")
        /\ Args(c).scheduler = Undef
        /\ SpawnRequest(c).tags =
             <<[name |-> "Name", value |-> Some("Forge")], ActionTag, RefTag>>
        /\ SpawnRequest(c).module = AOS_MODULE
        /\ Contains(Text(c), "\nScheduler: " \o SCHEDULER \o "\nName: Forge")

\* The edges a finished list-results call received, none when the reply
\* carries no edge list.
EdgesOf(c) ==
    IF IsDef(Outcome(c).edges) THEN Outcome(c).edges[1] ELSE << >>

\* The text shows the field under the label: cut to its first 200
\* characters and marked "..." when it is longer than 200, whole and
\* unmarked otherwise.
ShowsPreview(text, label, field) ==
    IF Len(field) > 200
    THEN /\ Contains(text, label \o SubSeq(field, 1, 200) \o "...\n")
         /\ ~Contains(text, label \o SubSeq(field, 1, 201))
    ELSE /\ Contains(text, label \o field \o "\n")
         /\ ~Contains(text, label \o field \o "...")

\* C12: in the text of list-results, the output of every entry and the
\* data of every entry's first message is shown as its first 200
\* characters followed by "..." when it is longer than 200 characters, and
\* unmodified and without the marker when it has 200 characters or fewer.
C12_TruncationLaw ==
    \A c \in Calls :
        Fetched(c, "results") =>
            \A i \in 1..Len(EdgesOf(c)) :
                LET node == EdgesOf(c)[i].node
                IN  /\ (/\ IsDef(node.Output)
                        /\ IsDef(node.Output[1].data)
                        /\ node.Output[1].data[1] /= "")
                        => ShowsPreview(Text(c), "Output: ",
                                        node.Output[1].data[1])
                    /\ (/\ IsDef(node.Messages)
                        /\ Len(node.Messages[1]) > 0
                        /\ IsDef(node.Messages[1][1].Data)
                        /\ node.Messages[1][1].Data[1] /= "")
                        => ShowsPreview(Text(c), "Message Data: ",
                                        node.Messages[1][1].Data[1])

\* A list-results call has shown an entry whose output has exactly 200
\* characters, unmarked, and whose first message's data has 201, cut.
C12_Witness ==
    \E c \in Calls :
        /\ Fetched(c, "results")
        /\ EdgesOf(c) = <<EdgeAtLimit>>
        /\ Len(AtLimit) = 200
        /\ Len(OverLimit) = 201
        /\ Contains(Text(c), "Output: " \o AtLimit \o "\nMessage Action: unknown\n"
                                \o "Message Data: " \o SubSeq(OverLimit, 1, 200)
                                \o "...\n")

\* The positions at which t occurs in s.
Occurrences(s, t) ==
    {i \in 1..(Len(s) - Len(t) + 1) : SubSeq(s, i, i + Len(t) - 1) = t}

\* The number of entries among the edges for which P holds.
CountEdges(edges, P(_)) == Cardinality({i \in 1..Len(edges) : P(edges[i])})

\* The first line of the block of the i-th entry.
HeaderOf(edges, i) ==
    "--- Result " \o ToString(i) \o " (cursor: " \o edges[i].cursor \o ") ---\n"

\* The block of the i-th entry: the text from its first line up to the first
\* line of the next entry, or to the end for the last entry.
BlockOf(text, edges, i) ==
    LET from == CHOOSE p \in Occurrences(text, HeaderOf(edges, i)) : TRUE
        to == IF i < Len(edges)
              THEN (CHOOSE p \in Occurrences(text, HeaderOf(edges, i + 1)) : TRUE) - 1
              ELSE Len(text)
    IN  SubSeq(text, from, to)

HasMessage(edge) == IsDef(edge.node.Messages) /\ Len(edge.node.Messages[1]) > 0
HasFirstData(edge) ==
    /\ HasMessage(edge)
    /\ IsDef(edge.node.Messages[1][1].Data)
    /\ edge.node.Messages[1][1].Data[1] /= ""

\* The value of the first tag named Action of the message, "unknown" when
\* there is none or it is empty.
ShownAction(msg) ==
    IF IsDef(msg.Tags) /\ \E k \in 1..Len(msg.Tags[1]) : msg.Tags[1][k].name = "Action"
    THEN LET k == CHOOSE k \in 1..Len(msg.Tags[1]) :
                    /\ msg.Tags[1][k].name = "Action"
                    /\ \A j \in 1..(k - 1) : msg.Tags[1][j].name /= "Action"
             v == msg.Tags[1][k].value
         IN  IF IsDef(v) /\ v[1] /= "" THEN v[1] ELSE "unknown"
    ELSE "unknown"

\* C13: a list-results call with a valid process identifier whose reply
\* has no entries, or no entry list, returns a non-error "no results"
\* message.  Otherwise it returns a non-error text with one numbered block
\* per entry, numbered from 1 in the order of the reply, none dropped or
\* reordered, each block carrying its entry's cursor and showing the action
\* and data of the entry's first message only.
C13_OneBlockPerEntry ==
    \A c \in Calls :
        Fetched(c, "results") =>
            LET edges == EdgesOf(c)
                text == Text(c)
            IN  /\ ~IsErr(Result(c))
                /\ Len(edges) = 0 =>
                     text = "No results found for process " \o Args(c).process_id[1]
                /\ Len(edges) > 0 =>
                     /\ StartsWith(text, "Results for process "
                                           \o Args(c).process_id[1] \o ":\n\n"
                                           \o HeaderOf(edges, 1))
                     /\ Cardinality(Occurrences(text, "--- Result ")) = Len(edges)
                     /\ \A i \in 1..Len(edges) :
                          Cardinality(Occurrences(text, HeaderOf(edges, i))) = 1
                     /\ \A i \in 1..(Len(edges) - 1) :
                          \A p \in Occurrences(text, HeaderOf(edges, i)) :
                              \A q \in Occurrences(text, HeaderOf(edges, i + 1)) :
                                  p < q
                     /\ Cardinality(Occurrences(text, "Message Action: "))
                          = CountEdges(edges, HasMessage)
                     /\ Cardinality(Occurrences(text, "Message Data: "))
                          = CountEdges(edges, HasFirstData)
                     /\ \A i \in 1..Len(edges) :
                          LET block == BlockOf(text, edges, i)
                              msgs == edges[i].node.Messages
                          IN  /\ HasMessage(edges[i]) =>
                                   Contains(block, "Message Action: "
                                                     \o ShownAction(msgs[1][1])
                                                     \o "\n")
                              /\ HasFirstData(edges[i]) =>
                                   ShowsPreview(block, "Message Data: ",
                                                msgs[1][1].Data[1])
                              /\ HasMessage(edges[i]) =>
                                   \A k \in 2..Len(msgs[1]) :
                                       IsDef(msgs[1][k].Data) =>
                                           ~Contains(block, msgs[1][k].Data[1])

\* A list-results call has shown two entries in the order of the reply; the
\* second entry has two messages and only the first of them is shown.
C13_Witness ==
    \E c \in Calls :
        /\ Fetched(c, "results")
        /\ EdgesOf(c) = <<Edge2, Edge1>>
        /\ Len(Edge1.node.Messages[1]) = 2
        /\ Text(c) = "Results for process " \o ValidPid \o ":\n\n"
                       \o "--- Result 1 (cursor: c2) ---\nError: edge-error\n\n"
                       \o "--- Result 2 (cursor: c1) ---\nOutput: first-output\n"
                       \o "Message Action: Info\nMessage Data: {\"ok\":true}\n"

\* The handler of the request reaches the network when its signer
\* derivation, if any, has the outcome sg.
Awaits(name, arguments, sg) ==
    handleToolCall(name, ArgsOrEmpty(arguments), sg).step.k = "await"

\* The envelope the handler returns for a request, computed from the
\* request and the replies to the request's own awaits alone: sg is the
\* outcome of its signer derivation, msgId the identifier its message()
\* returned, reply the last reply it received.
OwnEnvelope(name, arguments, sg, msgId, reply) ==
    LET a == ArgsOrEmpty(arguments)
        d == handleToolCall(name, a, sg)
        send == d.exec = "executeSendMessage"
    IN  CallToolResult(Returned(
          IF d.step.k = "return" THEN d.step.env
          ELSE IF d.step.op = "dryrun" THEN executeQueryProcessResume(reply[1])
          ELSE IF d.step.op = "spawn" THEN executeSpawnProcessResume(a, reply[1])
          ELSE IF d.step.op = "results" THEN executeListResultsResume(a, reply[1])
          ELSE LET sent == IF IsDef(msgId) THEN Returned(msgId[1]) ELSE reply[1]
                   step == IF send THEN executeSendMessageSent(a, sent)
                           ELSE executeEvalLuaSent(a, sent)
               IN  IF step.k = "return" THEN step.env
                   ELSE IF send THEN executeSendMessageResume(msgId[1], reply[1])
                   ELSE executeEvalLuaResume(msgId[1], reply[1])))

\* C14: tool calls are stateless.  Whatever other calls are in flight or
\* were answered before, the request a suspended call has issued and the
\* envelope of a finished call are the ones computed from the call's own
\* name, arguments and replies, and every "list tools" response carries the
\* registry.
C14_Stateless ==
    \A c \in DOMAIN call :
        /\ call[c].pc \in NetworkOps =>
              \E sg \in SignerOutcomes :
                  LET step == handleToolCall(call[c].name, Args(c), sg).step
                  IN  /\ step.k = "await"
                      /\ NetworkCalls(c)[1] = [op |-> step.op, req |-> step.req]
        /\ (Done(c) /\ call[c].exec /= "listTools") =>
              \E sg \in SignerOutcomes :
                  /\ Awaits(call[c].name, call[c].arguments, sg)
                       <=> NetworkCalls(c) /= << >>
                  /\ Result(c) = OwnEnvelope(call[c].name, call[c].arguments, sg,
                                             call[c].msgId, call[c].reply)
        /\ (Done(c) /\ call[c].exec = "listTools") =>
              Result(c) = [tools |-> TOOLS]

\* Two send-message calls were in flight together: the first got the
\* identifier mid-1 and is answered with it, while the second, which got
\* mid-2 afterwards, is still awaiting its outcome.
C14_Witness ==
    \E c, d \in DOMAIN call :
        /\ c /= d
        /\ Done(c)
        /\ call[c].exec = "executeSendMessage"
        /\ call[c].msgId = Some("mid-1")
        /\ ~IsErr(Result(c))
        /\ Contains(Text(c), "mid-1")
        /\ call[d].exec = "executeSendMessage"
        /\ call[d].pc = "result"
        /\ call[d].msgId = Some("mid-2")

\* The operations of the call's external calls, in order.
OpsLog(c) == [i \in 1..Len(call[c].log) |-> call[c].log[i].op]

\* s is an initial part of t.
IsPrefix(s, t) == Len(s) <= Len(t) /\ s = SubSeq(t, 1, Len(s))

SubmitExecutors == {"executeSendMessage", "executeEvalLua"}

\* C15: in send-message and evaluate-code the external calls of a call
\* that passed validation are, in this order, the signer derivation, one
\* message submission and one outcome fetch.  The fetch is issued only
\* after the submission returned, for the same process identifier and with
\* the message identifier the submission returned; when the submission
\* raises, no fetch is issued and the result is an error envelope.
C15_SubmitThenFetch ==
    \A c \in Calls :
        call[c].exec \in SubmitExecutors =>
            LET log == call[c].log
            IN  /\ IsPrefix(OpsLog(c), <<"createDataItemSigner", "message", "result">>)
                /\ call[c].pc = "message" => Len(log) = 2
                /\ call[c].pc = "result" => Len(log) = 3
                /\ Len(log) = 3 =>
                     /\ IsDef(call[c].msgId)
                     /\ log[2].req.process = Args(c).process_id[1]
                     /\ log[3].req.process = log[2].req.process
                     /\ log[3].req.message = call[c].msgId[1]
                /\ (Done(c) /\ Len(log) = 2) =>
                     /\ call[c].reply[1].k = "throw"
                     /\ ~IsDef(call[c].msgId)
                     /\ IsErr(Result(c))

\* A send-message call whose submission returned mid-2 has fetched the
\* outcome of mid-2 and is answered.
C15_Witness ==
    \E c \in Calls :
        /\ Done(c)
        /\ call[c].exec = "executeSendMessage"
        /\ OpsLog(c) = <<"createDataItemSigner", "message", "result">>
        /\ call[c].msgId = Some("mid-2")
        /\ call[c].log[3].req = [process |-> ValidPid, message |-> "mid-2"]
        /\ ~IsErr(Result(c))

\* The number of calls of the network operation op the call has issued.
Issued(c, op) ==
    Cardinality({i \in 1..Len(call[c].log) : call[c].log[i].op = op})

\* The network operations the executor may call.
AllowedOps(exec) ==
    CASE exec = "executeQueryProcess" -> {"dryrun"}
      [] exec = "executeListResults"  -> {"results"}
      [] exec = "executeSpawnProcess" -> {"spawn"}
      [] exec \in SubmitExecutors     -> {"message", "result"}
      [] OTHER -> {}

\* The last reply the call received is a raise.
LastRaised(c) == IsDef(call[c].reply) /\ call[c].reply[1].k = "throw"

\* C16: no executor repeats a network call.  Per tool call, query issues
\* at most one dryrun, list-results at most one results, spawn at most one
\* spawn and never an outcome fetch, send-message and evaluate-code at most
\* one submission and at most one outcome fetch, and no executor calls an
\* operation of another.  A network call that raised is not issued again:
\* the call ends at once with an error envelope.
C16_NoRetry ==
    \A c \in Calls :
        /\ \A op \in NetworkOps :
              Issued(c, op) <= (IF op \in AllowedOps(call[c].exec) THEN 1 ELSE 0)
        /\ LastRaised(c) =>
              /\ Done(c)
              /\ IsErr(Result(c))
              /\ \A op \in NetworkOps : Issued(c, op) <= 1

\* A spawn whose network call raised is answered with an error envelope
\* after exactly one spawn and no outcome fetch.
C16_Witness ==
    \E c \in Calls :
        /\ Done(c)
        /\ call[c].exec = "executeSpawnProcess"
        /\ LastRaised(c)
        /\ Issued(c, "spawn") = 1
        /\ Issued(c, "result") = 0
        /\ IsErr(Result(c))

\* The prefix of the text an executor's catch block builds.
CatchPrefix(exec) ==
    CASE exec = "executeQueryProcess" -> "Error querying process: "
      [] exec = "executeSendMessage"  -> "Error sending message: "
      [] exec = "executeEvalLua"      -> "Error executing Lua code: "
      [] exec = "executeSpawnProcess" -> "Error spawning process: "
      [] exec = "executeListResults"  -> "Error listing results: "

\* What a catch block prints of the raised value e.
RaisedMessage(e) == IF e.isErrorObj THEN e.message ELSE "Unknown error"

\* The signer derivation of the call raised: the call ended after deriving
\* the signer without reaching the network.
SignerRaised(c) ==
    Done(c) /\ SignerCalls(c) /= << >> /\ NetworkCalls(c) = << >>

\* C17: no raise escapes an executor.  When a network call or the signer
\* derivation of a call raises, the call is answered with an error envelope
\* whose text is the executor's own prefix followed by the raised message,
\* or by "Unknown error" when the raised value is no Error; the text of the
\* request handler's own catch block ("Error: ...") is never the answer.
C17_RaiseIsCaught ==
    \A c \in Calls :
        /\ LastRaised(c) =>
              /\ Done(c)
              /\ IsErr(Result(c))
              /\ OneTextItem(Result(c))
              /\ Text(c) = CatchPrefix(call[c].exec)
                              \o RaisedMessage(call[c].reply[1].err)
              /\ Text(c) /= "Error: " \o RaisedMessage(call[c].reply[1].err)
        /\ SignerRaised(c) =>
              /\ IsErr(Result(c))
              /\ OneTextItem(Result(c))
              /\ \E t \in Throws :
                    Text(c) = CatchPrefix(call[c].exec) \o RaisedMessage(t.err)
              /\ \A t \in Throws : Text(c) /= "Error: " \o RaisedMessage(t.err)

\* A list-results call whose network call raised a value that is no Error
\* is answered by the executor's catch block.
C17_Witness ==
    \E c \in Calls :
        /\ Done(c)
        /\ call[c].exec = "executeListResults"
        /\ LastRaised(c)
        /\ ~call[c].reply[1].err.isErrorObj
        /\ Text(c) = "Error listing results: Unknown error"

====
